---- MODULE Spec2Model ----
(* Dual-tier persistence of the PromptGrid editor: the Grid component's     *)
(* state (columns, rows, sheetName), the localStorage slot holding the      *)
(* grid document, the IndexedDB image store, and the handlers and effects   *)
(* of the Grid component, the Cell component and the imageStorage service.  *)
EXTENDS Integers, Sequences, FiniteSets, Bags, TLC

\* ---------------------------------------------------------------- constants
DEFAULT_COL_WIDTH == 200
DEFAULT_ROW_HEIGHT == 150
INITIAL_COLS == 4
INITIAL_ROWS == 4
MIN_SIZE == 50
TEXT == "TEXT"
IMAGE == "IMAGE"
INDEXED == "[INDEXED_DB]"
OVERSIZED == "[IMAGE_TOO_LARGE]"
DEFAULT_SHEET_NAME == "PromptGrid"

\* ------------------------------------------------------------------- bounds
\* handlers run by the user in one behaviour
MaxOps == 2
\* store failures injected in one behaviour
MaxFaults == 1
MaxFaultsCombined == 2
\* saves in flight (awaiting their puts) at one time
MaxInflight == 1
MaxInflightOverlap == 2
\* BroadcastChannel objects created in one behaviour
MaxTabOpens == 3
\* imageStorage calls started in one behaviour, and open requests that fail
MaxCalls == 4
MaxOpenErrors == 1

\* ------------------------------------------------------------------- inputs
\* data URLs produced by FileReader.readAsDataURL
Payloads == {"data:A", "data:B"}
\* texts typed into a textarea
Texts == {"hi", OVERSIZED}
\* reader.result of an upload: a data URL, or null (read as "") on a failed read
Uploads == {"data:B", ""}
\* JSON files chosen in the import dialog: exports of a two-column, one-row grid
ImportDocs ==
  {[sheetName |-> "Sheet2",
    columns |-> <<[id |-> 901, label |-> "Col 1", width |-> 200],
                  [id |-> 902, label |-> "Col 2", width |-> 200]>>,
    rows |-> <<[id |-> 903, height |-> 150,
                cells |-> (901 :> [id |-> 904, type |-> "IMAGE", content |-> "data:A"]) @@
                          (902 :> [id |-> 905, type |-> "IMAGE", content |-> "data:B"])]>>]}
\* names typed into the sheet-name input
Names == {"", "Sheet2"}
\* mouse deltas reported by a resize handle
Deltas == {-160}
\* row and column positions (1-based) on which the user fires handlers
EditRows == {1}
EditCols == {1, 2}

\* browser tabs showing the editor
Tabs == {1, 2}

\* imageStorage calls that may run at the same time (the saveImage calls of one
\* Promise.all, a deleteImage, getAllImages)
Callers == {1, 2, 3}

NoDoc == [kind |-> "null"]
\* slot contents that are not a grid document: text that JSON.parse rejects,
\* and JSON objects lacking `columns`, `rows` or both
BadSlots ==
  {[kind |-> "text"],
   [kind |-> "json", value |-> [sheetName |-> "Sheet2"]],
   [kind |-> "json", value |-> [sheetName |-> "Sheet2", columns |-> <<>>]],
   [kind |-> "json", value |-> [sheetName |-> "Sheet2", rows |-> <<>>]]}
\* what localStorage.getItem may return on a visit
SavedSlots == {NoDoc} \cup BadSlots
\* files chosen in the import dialog, as read by the FileReader: .json files
\* (an export, text that is not JSON, an object without `rows`) and spreadsheet
\* files (no rows at all; a header row with an empty label and one short row)
ImportFiles ==
  {[kind |-> "json", text |-> [kind |-> "json", value |-> d]] : d \in ImportDocs} \cup
  {[kind |-> "json", text |-> [kind |-> "text"]],
   [kind |-> "json", text |-> [kind |-> "json", value |-> [columns |-> <<>>]]],
   [kind |-> "tabular", name |-> "book", data |-> <<>>],
   [kind |-> "tabular", name |-> "book", data |-> <<<<"A", "">>, <<"x">>>>]}

NoImport == [n |-> 0]
NoSave == [valid |-> FALSE]
NoColumnDelete == [valid |-> FALSE]

VARIABLES
  columns,    \* useState<GridColumn[]>
  rows,       \* useState<GridRow[]>
  sheetName,  \* useState("PromptGrid")
  meta,       \* localStorage[LOCAL_STORAGE_KEY]
  blob,       \* the 'images' object store: cellId -> content
  loadPc,     \* position of loadData: "start", "getAll", "done"
  loadTmp,    \* loadedCols / loadedRows / loadedSheetName while getAll is pending
  dirty,      \* a render with changed [columns, rows, sheetName] awaits the save effect
  saves,      \* saveData invocations awaiting their saveImage calls
  dels,       \* deleteImage calls in flight (bag of cell ids)
  clears,     \* clearAllImages calls in flight
  issued,     \* Blob Store calls issued by the handler or effect that ran last
  lastSave,   \* history: the saveData invocation that completed last
  lastLoad,   \* history: how the last loadData finished
  lastColumnDelete, \* history: the deleteColumn that ran last in this page
  nextId,     \* ids handed out by generateId so far
  ops,        \* handlers run by the user so far
  faults,     \* store failures so far
  budget, \* limits of this run: store failures injected, saveData calls in flight
  escaped,    \* store failures that left their handler uncaught (unhandled rejections)
  logged,     \* console.warn / console.error: the operations whose failure a catch logged
  cleared,    \* history: ids of cells cleared to empty TEXT while their image was in the Blob Store
  lastImport, \* history: the import (reader.onload of handleImportFile) that ran last
  tabs,       \* per tab: position of the multi-tab effect, tabId, warning, queued messages
  tabLog,     \* history: channels created so far, tabs that ever created one
  db          \* imageStorage module: dbInstance, open requests, service calls running

vars == <<columns, rows, sheetName, meta, blob, loadPc, loadTmp, dirty, saves,
          dels, clears, issued, lastSave, lastLoad, lastColumnDelete, nextId, ops,
          faults, budget, escaped, logged, cleared, lastImport, tabs, tabLog, db>>

\* the state of one Grid component and of the two stores
gridVars == <<columns, rows, sheetName, meta, blob, loadPc, loadTmp, dirty, saves,
              dels, clears, issued, lastSave, lastLoad, lastColumnDelete, nextId, ops,
              faults, budget, escaped, logged, cleared, lastImport>>

\* ------------------------------------------------------------------ helpers
Max(a, b) == IF a >= b THEN a ELSE b

\* JS truthiness of a string
Truthy(s) == s # ""

\* cell.content.startsWith('data:')
StartsWithData(c) == c \in Payloads

\* JSON.stringify / JSON.parse of the slot value
JSONStringify(d) == [kind |-> "json", value |-> d]
JSONParse(s) == IF s.kind = "json" THEN s.value ELSE [error |-> TRUE]

CellsOf(rs) == UNION {{rs[i].cells[k] : k \in DOMAIN rs[i].cells} : i \in DOMAIN rs}

\* a put that leaves an entry already present as it is
BlobPutKeepsFirst(b, id, c) ==
  [x \in (DOMAIN b) \cup {id} |-> IF x \in DOMAIN b THEN b[x] ELSE c]

\* Map.set / store.put and store.delete on the id -> content mapping
BlobPut(b, id, c) == [x \in (DOMAIN b) \cup {id} |-> IF x = id THEN c ELSE b[x]]
BlobDelete(b, id) == [x \in (DOMAIN b) \ {id} |-> b[x]]

\* store.add in place of store.put: a key already present rejects the request
PutRejectsExisting(b, id) == id \notin DOMAIN b

\* store.put(record) on keyPath 'cellId': an existing key is overwritten, the
\* request does not fail on it
PutAccepts(b, id) == TRUE

EmptyBlob == [x \in {} |-> ""]

\* ----------------------------------------------------------- grid documents
EmptyTextCell(id) == [id |-> id, type |-> TEXT, content |-> ""]

\* `Col ${n}`
ColLabel(n) == "Col " \o ToString(n)

\* rows created with `cells: {}` and never populated
FreshRowsNoCells(base) ==
  [r \in 1..INITIAL_ROWS |->
     [id |-> base + INITIAL_COLS + r - 1, height |-> DEFAULT_ROW_HEIGHT,
      cells |-> [k \in {} |-> EmptyTextCell(0)]]]

\* the fresh grid of loadData: ids base .. base + INITIAL_COLS + INITIAL_ROWS +
\* INITIAL_COLS * INITIAL_ROWS - 1 are generated in the order of the code
FreshCols(base) ==
  [i \in 1..INITIAL_COLS |->
     [id |-> base + i - 1, label |-> ColLabel(i), width |-> DEFAULT_COL_WIDTH]]

FreshRows(base) ==
  LET cellBase == base + INITIAL_COLS + INITIAL_ROWS
  IN  [r \in 1..INITIAL_ROWS |->
         [id |-> base + INITIAL_COLS + r - 1,
          height |-> DEFAULT_ROW_HEIGHT,
          cells |-> [k \in {base + i - 1 : i \in 1..INITIAL_COLS} |->
                       EmptyTextCell(cellBase + (r - 1) * INITIAL_COLS + (k - base))]]]

FreshIds == INITIAL_COLS + INITIAL_ROWS + INITIAL_COLS * INITIAL_ROWS

\* ---------------------------------------------------------------- load path
\* a merge that restores a blob only into a cell holding the INDEXED placeholder
MergeCellPlaceholderOnly(cell, imageMap) ==
  IF cell.id \in DOMAIN imageMap /\ cell.content = INDEXED
    THEN [cell EXCEPT !.type = IMAGE, !.content = imageMap[cell.id]]
    ELSE IF cell.content = OVERSIZED
      THEN [cell EXCEPT !.type = TEXT, !.content = ""]
      ELSE cell

\* the merge of getAllImages() into loadedRows: one cell
MergeCell(cell, imageMap) ==
  IF cell.id \in DOMAIN imageMap /\ Truthy(imageMap[cell.id])
    THEN [cell EXCEPT !.type = IMAGE, !.content = imageMap[cell.id]]
    ELSE IF cell.content = OVERSIZED
      THEN [cell EXCEPT !.type = TEXT, !.content = ""]
      ELSE cell

MergeRows(rs, imageMap) ==
  [i \in DOMAIN rs |->
     [rs[i] EXCEPT !.cells = [k \in DOMAIN rs[i].cells |->
                                MergeCell(rs[i].cells[k], imageMap)]]]

\* the try block around JSON.parse: loadedCols / loadedRows / loadedSheetName,
\* or "none" when the slot is empty, unparsable or lacks columns or rows
ParseSaved(savedData) ==
  IF savedData.kind = "null" THEN [found |-> FALSE]
  ELSE LET parsed == JSONParse(savedData)
       IN  IF "error" \in DOMAIN parsed THEN [found |-> FALSE]
           ELSE IF {"columns", "rows"} \subseteq DOMAIN parsed
             THEN [found |-> TRUE, cols |-> parsed.columns, rows |-> parsed.rows,
                   name |-> IF "sheetName" \in DOMAIN parsed /\ Truthy(parsed.sheetName)
                              THEN parsed.sheetName ELSE DEFAULT_SHEET_NAME]
             ELSE [found |-> FALSE]

\* ---------------------------------------------------------------- save path
\* cell.type === IMAGE && cell.content && cell.content.startsWith('data:')
NeedsPut(cell) == cell.type = IMAGE /\ Truthy(cell.content) /\ StartsWithData(cell.content)

\* the saveImage calls of one saveData: cell id -> content
PutsOf(rs) == {[id |-> c.id, content |-> c.content] : c \in {x \in CellsOf(rs) : NeedsPut(x)}}

\* a callback that never writes the placeholder
StoredCellInline(cell, okIds) == cell

\* a callback that writes the placeholder whatever became of its saveImage
StoredCellSentinel(cell, okIds) ==
  IF cell.type = IMAGE /\ cell.content \in Payloads
    THEN [cell EXCEPT !.content = INDEXED]
    ELSE cell

\* what the cell's async callback returns once its saveImage settled
StoredCell(cell, okIds) ==
  IF NeedsPut(cell) /\ cell.id \in okIds
    THEN [cell EXCEPT !.content = INDEXED]
    ELSE cell

RowsForStorage(rs, okIds) ==
  [i \in DOMAIN rs |->
     [rs[i] EXCEPT !.cells = [k \in DOMAIN rs[i].cells |->
                                StoredCell(rs[i].cells[k], okIds)]]]

DataToSave(cols, rs, name, okIds, now) ==
  [columns |-> cols, rows |-> RowsForStorage(rs, okIds), sheetName |-> name,
   savedAt |-> now]

\* a saveData that puts its rowsForStorage back into the component state
RowsAfterSaveOffloaded(rs, okIds) == RowsForStorage(rs, okIds)

\* the rows of the component state once saveData has run: rowsForStorage is a
\* local of saveData, which calls no state setter
RowsAfterSave(rs, okIds) == rs

\* localStorage.setItem inside its try/catch
SetItem(slot, doc, ok) == IF ok THEN JSONStringify(doc) ELSE slot

\* one finished saveData: the snapshot it closed over, its saveImage calls and
\* their outcomes, the document handed to setItem and whether setItem returned
SaveRecord(s, okIds, doc, metaOk) ==
  [valid |-> TRUE, cols |-> s.cols, rows |-> s.rows, name |-> s.name,
   puts |-> s.puts, okIds |-> okIds, doc |-> doc, metaOk |-> metaOk,
   faulted |-> s.faulted \/ ~metaOk,
   again |-> s.again, before |-> s.before, quiet |-> s.clean]

\* every saveImage of the save resolved and its setItem returned
AllOk(ls) == ls.metaOk /\ ls.okIds = {p.id : p \in ls.puts}

\* no store failure was injected into the save
NoFault(ls) == ~ls.faulted

\* no Blob Store call and no saveData is in flight
Idle == saves = <<>> /\ dels = EmptyBag /\ clears = 0

\* a saveData starting now repeats the save that completed last: same Grid
\* State, every call of that save succeeded, and the stores were left alone since
Repeats(ls) ==
  /\ ls.valid /\ ls.quiet /\ NoFault(ls)
  /\ ls.cols = columns /\ ls.rows = rows /\ ls.name = sheetName
  /\ Idle

Disturb(ls) == IF ls.valid THEN [ls EXCEPT !.quiet = FALSE] ELSE ls

DisturbAll(ss) == [i \in DOMAIN ss |-> [ss[i] EXCEPT !.clean = FALSE]]

RemoveAt(seq, i) == SubSeq(seq, 1, i - 1) \o SubSeq(seq, i + 1, Len(seq))

\* new Date(): time is counted in user events
Now == ops

\* whether one more store failure may be injected
Outcomes == IF faults < budget.faults THEN {TRUE, FALSE} ELSE {TRUE}

Fault(ok) == IF ok THEN faults ELSE faults + 1

\* the store operations of the editor
StoreOps == {"put", "getAll", "delete", "clear", "setItem"}

\* whether a failure of the operation is caught where the editor calls it: the
\* try/catch around getAllImages, saveImage and localStorage.setItem, the
\* .catch on deleteImage and clearAllImages; each catch logs the failure to
\* the console and returns normally
CaughtButSetItem(op) == op \in StoreOps \ {"setItem"}

CaughtButGetAll(op) == op \in StoreOps \ {"getAll"}

Caught(op) == op \in StoreOps

\* the failures that propagate out of their async function
Escapes(op, ok) == IF ok \/ Caught(op) THEN {} ELSE {op}

\* the failures a catch writes to the console
Logs(op, ok) == IF ~ok /\ Caught(op) THEN {op} ELSE {}

\* ------------------------------------------------------- imageStorage handle
\* module state at page load: `let dbInstance = null`, no call running
NoDb ==
  [instance |-> 0, opens |-> 0, opened |-> {}, calls |-> 0, errors |-> 0,
   pc |-> [o \in Callers |-> "idle"], req |-> [o \in Callers |-> 0],
   got |-> [o \in Callers |-> 0]]

\* --------------------------------------------------------- presence monitor
NoMsg == [type |-> "none", tabId |-> 0]

\* a tab without the editor (never opened, or closed): no channel, no state
ClosedTab == [pc |-> "closed", tabId |-> 0, warned |-> FALSE, inbox |-> <<>>,
              cause |-> NoMsg]

\* a banner that starts raised
FreshTabWarned(id) == [pc |-> "created", tabId |-> id, warned |-> TRUE, inbox |-> <<>>,
                       cause |-> [type |-> "none", tabId |-> 0]]

\* a tab in which Grid has just mounted and the effect created its channel and
\* tabId: useState(false) for the warning
FreshTab(id) == [pc |-> "created", tabId |-> id, warned |-> FALSE, inbox |-> <<>>,
                 cause |-> NoMsg]

TabOpenMsg(id) == [type |-> "TAB_OPEN", tabId |-> id]
TabExistsMsg(id) == [type |-> "TAB_EXISTS", tabId |-> id]

\* the BroadcastChannel objects a message posted by tab t is queued on: every
\* other open channel of the same name
Recipients(t) == {u \in Tabs \ {t} : tabs[u].pc # "closed"}

\* channel.postMessage(msg) by tab t, on the tabs record ts
PostFrom(ts, t, msg) ==
  [u \in Tabs |-> IF u \in Recipients(t)
                    THEN [ts[u] EXCEPT !.inbox = Append(@, msg)]
                    ELSE ts[u]]

\* channel.onmessage: whether the message raises the warning
Warns(own, msg) == msg.type \in {"TAB_OPEN", "TAB_EXISTS"} /\ msg.tabId # own

\* a handler that raises the warning without answering
RepliesNever(own, msg) == FALSE

\* a handler that answers TAB_EXISTS as well
RepliesToExists(own, msg) == msg.tabId # own

\* channel.onmessage: whether the message is answered with TAB_EXISTS
Replies(own, msg) == msg.type = "TAB_OPEN" /\ msg.tabId # own

\* ------------------------------------------------------------------ actions
\* the component before its first effect, over a slot holding `slot`
InitWith(slot, maxFaults, maxInflight) ==
  /\ columns = <<>>
  /\ rows = <<>>
  /\ sheetName = DEFAULT_SHEET_NAME
  /\ meta = slot
  /\ blob = EmptyBlob
  /\ loadPc = "start"
  /\ loadTmp = [found |-> FALSE]
  /\ dirty = FALSE
  /\ saves = <<>>
  /\ dels = EmptyBag
  /\ clears = 0
  /\ issued = <<>>
  /\ lastSave = NoSave
  /\ lastLoad = [valid |-> FALSE]
  /\ lastColumnDelete = NoColumnDelete
  /\ nextId = 1
  /\ ops = 0
  /\ faults = 0
  /\ budget = [faults |-> maxFaults, inflight |-> maxInflight]
  /\ escaped = {}
  /\ logged = {}
  /\ lastImport = NoImport
  /\ tabs = [t \in Tabs |-> ClosedTab]
  /\ tabLog = [opens |-> 0, seen |-> {}]
  /\ db = NoDb
  /\ cleared = {}

\* first visit: nothing is saved
Init == InitWith(NoDoc, MaxFaults, MaxInflight)

\* a visit that finds the slot empty or holding something left by another writer
InitSaved == \E slot \in SavedSlots : InitWith(slot, MaxFaults, MaxInflight)

\* first visit in a run that may inject several store failures
InitFailing == InitWith(NoDoc, MaxFaultsCombined, MaxInflight)

\* first visit in a run in which saveData calls may overlap
InitOverlap == InitWith(NoDoc, MaxFaults, MaxInflightOverlap)

\* mount: loadData up to its first await (or to its end when nothing usable is
\* saved); the save effect of the first render returns on the empty grid
Mount ==
  /\ loadPc = "start"
  /\ LET got == ParseSaved(meta)
     IN  IF got.found
           THEN /\ loadPc' = "getAll"
                /\ loadTmp' = got
                /\ UNCHANGED <<columns, rows, dirty, nextId, lastLoad>>
           ELSE /\ loadPc' = "done"
                /\ loadTmp' = got
                /\ columns' = FreshCols(nextId)
                /\ rows' = FreshRows(nextId)
                /\ nextId' = nextId + FreshIds
                /\ dirty' = TRUE
                /\ lastLoad' = [valid |-> TRUE, src |-> "fresh", getAllOk |-> TRUE,
                                 hits |-> {}]
  /\ issued' = <<>>
  /\ UNCHANGED <<escaped, logged, lastImport, budget, cleared, tabs, tabLog, db, sheetName, meta, blob, saves, dels, clears, lastSave,
                 lastColumnDelete, ops, faults>>

\* loadData after `await getAllImages()`: resolved (ok) or rejected
LoadFinish(ok) ==
  /\ loadPc = "getAll"
  /\ loadPc' = "done"
  /\ IF ok \/ Caught("getAll")
       THEN /\ columns' = loadTmp.cols
            /\ rows' = IF ok THEN MergeRows(loadTmp.rows, blob) ELSE loadTmp.rows
            /\ sheetName' = loadTmp.name
            /\ dirty' = TRUE
            /\ lastLoad' = [valid |-> TRUE, src |-> "doc", getAllOk |-> ok,
                             hits |-> IF ok THEN {c.id : c \in CellsOf(loadTmp.rows)}
                                                   \cap DOMAIN blob
                                      ELSE {}]
       ELSE \* the rejection leaves loadData before its setColumns / setRows
            UNCHANGED <<columns, rows, sheetName, dirty, lastLoad>>
  /\ faults' = Fault(ok)
  /\ escaped' = escaped \cup Escapes("getAll", ok)
  /\ logged' = logged \cup Logs("getAll", ok)
  /\ UNCHANGED <<lastImport, budget, cleared, tabs, tabLog, db, meta, blob, loadTmp, saves, dels, clears, issued, lastSave,
                 lastColumnDelete, nextId, ops>>

PutCall(p) == [op |-> "put", id |-> p.id, content |-> p.content]

RECURSIVE PutCalls(_)
PutCalls(ps) ==
  IF ps = {} THEN <<>>
  ELSE LET p == CHOOSE x \in ps : \A y \in ps : x.id <= y.id
       IN  <<PutCall(p)>> \o PutCalls(ps \ {p})

\* the saveData closure created by the save effect
NewSave ==
  [cols |-> columns, rows |-> rows, name |-> sheetName,
   puts |-> PutsOf(rows), pend |-> {p.id : p \in PutsOf(rows)}, okIds |-> {},
   faulted |-> FALSE,
   again |-> Repeats(lastSave),
   before |-> IF Repeats(lastSave) THEN [blob |-> blob, meta |-> meta]
              ELSE [blob |-> EmptyBlob, meta |-> NoDoc],
   clean |-> Idle]

\* a save effect without its guard
UninitialisedNever(cols, rs) == FALSE

\* if (columns.length === 0 && rows.length === 0) return;
Uninitialised(cols, rs) == cols = <<>> /\ rs = <<>>

\* the save effect, run after a render in which columns, rows or sheetName
\* changed: returns on the uninitialised grid, else starts saveData; a saveData
\* without saveImage calls reaches setItem before any other task runs
SaveEffect ==
  /\ dirty
  /\ dirty' = FALSE
  /\ IF Uninitialised(columns, rows)
       THEN /\ issued' = <<>>
            /\ UNCHANGED <<meta, saves, lastSave, faults, escaped, logged, rows>>
       ELSE /\ issued' = PutCalls(NewSave.puts)
            /\ IF NewSave.puts = {}
                 THEN \E ok \in Outcomes :
                        LET doc == DataToSave(columns, rows, sheetName, {}, Now)
                        IN  /\ meta' = SetItem(meta, doc, ok)
                            /\ lastSave' = SaveRecord(NewSave, {}, doc, ok)
                            /\ faults' = Fault(ok)
                            /\ escaped' = escaped \cup Escapes("setItem", ok)
                            /\ logged' = logged \cup Logs("setItem", ok)
                            /\ saves' = saves
                            /\ rows' = RowsAfterSave(rows, {})
                 ELSE /\ Len(saves) < budget.inflight
                      /\ saves' = Append(saves, NewSave)
                      /\ UNCHANGED <<meta, lastSave, faults, escaped, logged, rows>>
  /\ UNCHANGED <<lastImport, budget, cleared, tabs, tabLog, db, columns, sheetName, blob, loadPc, loadTmp, dels, clears,
                 lastLoad, lastColumnDelete, nextId, ops>>

\* a saveData that goes on to setItem as soon as one saveImage has settled
SettledAtFirst(pend) == TRUE

\* await Promise.all over the cells: saveData goes on when every saveImage it
\* awaits inside a try/catch has settled
Settled(pend) == pend = {}

\* one saveImage of the i-th saveData in flight settles: resolved (ok) or
\* rejected; when it was the last one, Promise.all resolves and setItem runs
\* (metaOk: setItem returned, or threw into the catch)
PutDone(i, id, ok, metaOk) ==
  /\ i \in DOMAIN saves
  /\ id \in saves[i].pend
  /\ LET s == saves[i]
         p == CHOOSE x \in s.puts : x.id = id
         done == ok /\ PutAccepts(blob, id)
         okIds == IF done THEN s.okIds \cup {id} ELSE s.okIds
         pend == s.pend \ {id}
         after == [j \in DOMAIN saves |->
                     IF j = i THEN [s EXCEPT !.pend = pend, !.okIds = okIds,
                                             !.faulted = @ \/ ~ok]
                     ELSE [saves[j] EXCEPT !.clean = FALSE]]
     IN  /\ blob' = IF done THEN BlobPut(blob, id, p.content) ELSE blob
         /\ IF ~done /\ ~Caught("put")
              THEN \* the rejection leaves saveData before its setItem
                   /\ metaOk
                   /\ saves' = RemoveAt(after, i)
                   /\ lastSave' = Disturb(lastSave)
                   /\ escaped' = escaped \cup {"put"}
                   /\ UNCHANGED <<meta, logged, rows>>
              ELSE IF Settled(pend)
                THEN LET doc == DataToSave(s.cols, s.rows, s.name, okIds, Now)
                     IN  /\ meta' = SetItem(meta, doc, metaOk)
                         /\ lastSave' = SaveRecord(after[i], okIds, doc, metaOk)
                         /\ saves' = RemoveAt(after, i)
                         /\ rows' = RowsAfterSave(rows, okIds)
                         /\ escaped' = escaped \cup Escapes("setItem", metaOk)
                         /\ logged' = logged \cup Logs("put", done)
                                               \cup Logs("setItem", metaOk)
                ELSE /\ metaOk
                     /\ saves' = after
                     /\ lastSave' = Disturb(lastSave)
                     /\ logged' = logged \cup Logs("put", done)
                     /\ UNCHANGED <<meta, escaped, rows>>
  /\ faults' = faults + (IF ok THEN 0 ELSE 1) + (IF metaOk THEN 0 ELSE 1)
  /\ faults' <= budget.faults
  /\ UNCHANGED <<lastImport, budget, cleared, tabs, tabLog, db, columns, sheetName, loadPc, loadTmp, dirty, dels, clears,
                 issued, lastLoad, lastColumnDelete, nextId, ops>>

\* one deleteImage in flight settles: resolved (ok) or rejected into its catch
DelDone(id, ok) ==
  /\ BagIn(id, dels)
  /\ dels' = dels (-) SetToBag({id})
  /\ blob' = IF ok THEN BlobDelete(blob, id) ELSE blob
  /\ saves' = DisturbAll(saves)
  /\ lastSave' = Disturb(lastSave)
  /\ faults' = Fault(ok)
  /\ escaped' = escaped \cup Escapes("delete", ok)
  /\ logged' = logged \cup Logs("delete", ok)
  /\ UNCHANGED <<lastImport, budget, cleared, tabs, tabLog, db, columns, rows, sheetName, meta, loadPc, loadTmp, dirty, clears,
                 issued, lastLoad, lastColumnDelete, nextId, ops>>

\* one clearAllImages in flight settles: resolved (ok) or rejected into its catch
ClearDone(ok) ==
  /\ clears > 0
  /\ clears' = clears - 1
  /\ blob' = IF ok THEN EmptyBlob ELSE blob
  /\ saves' = DisturbAll(saves)
  /\ lastSave' = Disturb(lastSave)
  /\ faults' = Fault(ok)
  /\ escaped' = escaped \cup Escapes("clear", ok)
  /\ logged' = logged \cup Logs("clear", ok)
  /\ UNCHANGED <<lastImport, budget, cleared, tabs, tabLog, db, columns, rows, sheetName, meta, loadPc, loadTmp, dirty, dels,
                 issued, lastLoad, lastColumnDelete, nextId, ops>>

\* ------------------------------------------------------------ user handlers
\* String.prototype.trim on the texts of the model
Trim(t) == IF t = " " THEN "" ELSE t

DeleteCall(id) == [op |-> "delete", id |-> id, content |-> ""]

ClearCall == [op |-> "clear", id |-> 0, content |-> ""]

RECURSIVE BagOfCalls(_)
BagOfCalls(calls) ==
  IF calls = <<>> THEN EmptyBag
  ELSE SetToBag({Head(calls).id}) (+) BagOfCalls(Tail(calls))

\* a handleCellChange that deletes whenever the old cell was an image
CellChangeDeletesOldOnly(rs, rowId, colId, newCell) ==
  LET hit(row) == /\ row.id = rowId
                  /\ colId \in DOMAIN row.cells
                  /\ row.cells[colId].type = IMAGE
      matched == SelectSeq(rs, hit)
  IN  [i \in DOMAIN matched |-> DeleteCall(matched[i].cells[colId].id)]

\* handleCellChange: the deleteImage calls made inside the updater
CellChangeDeletes(rs, rowId, colId, newCell) ==
  LET hit(row) == /\ row.id = rowId
                  /\ colId \in DOMAIN row.cells
                  /\ row.cells[colId].type = IMAGE
                  /\ newCell.type # IMAGE \/ ~Truthy(newCell.content)
      matched == SelectSeq(rs, hit)
  IN  [i \in DOMAIN matched |-> DeleteCall(matched[i].cells[colId].id)]

\* handleCellChange: the rows returned by the updater
CellChangeRows(rs, rowId, colId, newCell) ==
  [i \in DOMAIN rs |->
     IF rs[i].id = rowId
       THEN [rs[i] EXCEPT !.cells = [k \in (DOMAIN rs[i].cells) \cup {colId} |->
                                       IF k = colId THEN newCell ELSE rs[i].cells[k]]]
       ELSE rs[i]]

\* the Cell rendered at row r, column c (Grid renders one per column of
\* `columns` for which the row holds a cell)
Rendered(r, c) ==
  /\ r \in EditRows \cap DOMAIN rows
  /\ c \in EditCols \cap DOMAIN columns
  /\ columns[c].id \in DOMAIN rows[r].cells

CellAt(r, c) == rows[r].cells[columns[c].id]

\* a handler may run: the component is mounted, no render is waiting for its
\* effect, and the bound on user events is not reached
UserMay == loadPc # "start" /\ ~dirty /\ ops < MaxOps

\* onChange(newCell) of the Cell at row r, column c
HandleCellChange(r, c, newCell) ==
  LET calls == CellChangeDeletes(rows, rows[r].id, columns[c].id, newCell)
  IN  /\ rows' = CellChangeRows(rows, rows[r].id, columns[c].id, newCell)
      /\ issued' = calls
      /\ dels' = dels (+) BagOfCalls(calls)
      /\ dirty' = TRUE
      /\ ops' = ops + 1
      /\ cleared' = cleared \cup
                      {x \in {calls[i].id : i \in DOMAIN calls} \cap DOMAIN blob :
                         newCell.type = TEXT /\ newCell.content = ""}
      /\ UNCHANGED <<escaped, logged, lastImport, budget, tabs, tabLog, db, columns, sheetName,
                     meta, blob, loadPc, loadTmp, saves, clears,
                     lastSave, lastLoad, lastColumnDelete, nextId, faults>>

\* Cell.handleTextChange: the textarea of a TEXT cell
TextChange(r, c, t) ==
  /\ UserMay /\ Rendered(r, c)
  /\ CellAt(r, c).type # IMAGE
  /\ t # CellAt(r, c).content
  /\ HandleCellChange(r, c, [CellAt(r, c) EXCEPT !.content = t])

\* Cell.handlePaste: an image pasted on either rendering of the cell
Paste(r, c, img) ==
  /\ UserMay /\ Rendered(r, c)
  /\ HandleCellChange(r, c, [CellAt(r, c) EXCEPT !.type = IMAGE, !.content = img])

\* Cell.handleImageUpload: the upload button of a TEXT cell; reader.result is
\* the data URL, or null when the read failed
ImageUpload(r, c, result) ==
  /\ UserMay /\ Rendered(r, c)
  /\ CellAt(r, c).type # IMAGE
  /\ HandleCellChange(r, c, [CellAt(r, c) EXCEPT !.type = IMAGE, !.content = result])

\* a clearCell that builds the empty cell anew instead of spreading `cell`
ClearCellNewId(r, c) ==
  /\ UserMay /\ Rendered(r, c)
  /\ CellAt(r, c).type = IMAGE
  /\ HandleCellChange(r, c, [id |-> 0, type |-> TEXT, content |-> ""])

\* Cell.clearCell: the clear button of an IMAGE cell
ClearCell(r, c) ==
  /\ UserMay /\ Rendered(r, c)
  /\ CellAt(r, c).type = IMAGE
  /\ HandleCellChange(r, c, [CellAt(r, c) EXCEPT !.type = TEXT, !.content = ""])

\* addColumn: ids are generated for the column, then for one cell per row
AddColumn ==
  /\ UserMay
  /\ LET newCol == [id |-> nextId, label |-> ColLabel(Len(columns) + 1),
                    width |-> DEFAULT_COL_WIDTH]
     IN  /\ columns' = Append(columns, newCol)
         /\ rows' = [i \in DOMAIN rows |->
                       [rows[i] EXCEPT !.cells =
                          [k \in (DOMAIN rows[i].cells) \cup {newCol.id} |->
                             IF k = newCol.id THEN EmptyTextCell(nextId + i)
                             ELSE rows[i].cells[k]]]]
         /\ nextId' = nextId + 1 + Len(rows)
  /\ dirty' = TRUE
  /\ issued' = <<>>
  /\ ops' = ops + 1
  /\ UNCHANGED <<escaped, logged, lastImport, budget, cleared, tabs, tabLog, db, sheetName, meta, blob, loadPc, loadTmp, saves, dels, clears,
                 lastSave, lastLoad, lastColumnDelete, faults>>

\* addRow: ids are generated for the row, then for one cell per column
AddRow ==
  /\ UserMay
  /\ LET newRow == [id |-> nextId, height |-> DEFAULT_ROW_HEIGHT,
                    cells |-> [k \in {columns[j].id : j \in DOMAIN columns} |->
                                 EmptyTextCell(nextId +
                                   (CHOOSE j \in DOMAIN columns : columns[j].id = k))]]
     IN  /\ rows' = Append(rows, newRow)
         /\ nextId' = nextId + 1 + Len(columns)
  /\ dirty' = TRUE
  /\ issued' = <<>>
  /\ ops' = ops + 1
  /\ UNCHANGED <<escaped, logged, lastImport, budget, cleared, tabs, tabLog, db, columns, sheetName, meta, blob, loadPc, loadTmp, saves, dels, clears,
                 lastSave, lastLoad, lastColumnDelete, faults>>

\* deleteColumn: rows.some(...) over the column's cells
HasData(rs, colId) ==
  \E i \in DOMAIN rs :
     /\ colId \in DOMAIN rs[i].cells
     /\ Truthy(rs[i].cells[colId].content)
     /\ Trim(rs[i].cells[colId].content) # ""

\* deleteColumn: the deleteImage calls of rows.forEach
ColumnDeletes(rs, colId) ==
  LET hit(row) == colId \in DOMAIN row.cells /\ row.cells[colId].type = IMAGE
      matched == SelectSeq(rs, hit)
  IN  [i \in DOMAIN matched |-> DeleteCall(matched[i].cells[colId].id)]

\* deleteColumn: setColumns(prev => prev.filter(c => c.id !== colId))
ColumnsAfterDelete(cols, colId) == SelectSeq(cols, LAMBDA col : col.id # colId)

\* deleteColumn on column c; confirmed is the answer to window.confirm, asked
\* when the column has data. The handler calls setColumns only: rows keep the
\* column's cells
DeleteColumn(c, confirmed) ==
  /\ UserMay
  /\ c \in EditCols \cap DOMAIN columns
  /\ HasData(rows, columns[c].id) \/ confirmed
  /\ ops' = ops + 1
  /\ IF HasData(rows, columns[c].id) /\ ~confirmed
       THEN /\ issued' = <<>>
            /\ UNCHANGED <<columns, dels, dirty, lastColumnDelete>>
       ELSE /\ issued' = ColumnDeletes(rows, columns[c].id)
            /\ lastColumnDelete' =
                 [valid |-> TRUE, col |-> columns[c].id,
                  images |-> {x.id : x \in {rows[i].cells[columns[c].id] :
                                 i \in {j \in DOMAIN rows :
                                          columns[c].id \in DOMAIN rows[j].cells}} \cap
                                {y \in CellsOf(rows) : y.type = IMAGE}},
                  calls |-> ColumnDeletes(rows, columns[c].id)]
            /\ dels' = dels (+) BagOfCalls(ColumnDeletes(rows, columns[c].id))
            /\ columns' = ColumnsAfterDelete(columns, columns[c].id)
            /\ dirty' = TRUE
  /\ UNCHANGED <<escaped, logged, lastImport, budget, cleared, tabs, tabLog, db, rows, sheetName, meta, blob, loadPc, loadTmp, saves, clears, lastSave,
                 lastLoad, nextId, faults>>

\* handleColResize on column c
ColResize(c, delta) ==
  /\ UserMay
  /\ c \in EditCols \cap DOMAIN columns
  /\ columns' = [j \in DOMAIN columns |->
                   IF columns[j].id = columns[c].id
                     THEN [columns[j] EXCEPT !.width = Max(MIN_SIZE, @ + delta)]
                     ELSE columns[j]]
  /\ dirty' = TRUE
  /\ issued' = <<>>
  /\ ops' = ops + 1
  /\ UNCHANGED <<escaped, logged, lastImport, budget, cleared, tabs, tabLog, db, rows, sheetName, meta, blob, loadPc, loadTmp, saves, dels, clears,
                 lastSave, lastLoad, lastColumnDelete, nextId, faults>>

\* handleRowResize on row r
RowResize(r, delta) ==
  /\ UserMay
  /\ r \in EditRows \cap DOMAIN rows
  /\ rows' = [i \in DOMAIN rows |->
                IF rows[i].id = rows[r].id
                  THEN [rows[i] EXCEPT !.height = Max(MIN_SIZE, @ + delta)]
                  ELSE rows[i]]
  /\ dirty' = TRUE
  /\ issued' = <<>>
  /\ ops' = ops + 1
  /\ UNCHANGED <<escaped, logged, lastImport, budget, cleared, tabs, tabLog, db, columns, sheetName, meta, blob, loadPc, loadTmp, saves, dels, clears,
                 lastSave, lastLoad, lastColumnDelete, nextId, faults>>

\* the sheet-name input: setSheetName(e.target.value), fired on a changed value
SetSheetName(n) ==
  /\ UserMay
  /\ n # sheetName
  /\ sheetName' = n
  /\ dirty' = TRUE
  /\ issued' = <<>>
  /\ ops' = ops + 1
  /\ UNCHANGED <<escaped, logged, lastImport, budget, cleared, tabs, tabLog, db, columns, rows, meta, blob, loadPc, loadTmp, saves, dels, clears,
                 lastSave, lastLoad, lastColumnDelete, nextId, faults>>

\* the state updates of an accepted import, as records of the calls made
SetStateCall == [op |-> "setState", id |-> 0, content |-> ""]

\* an import that installs the grid before it clears the Blob Store
ImportCallsSetStateFirst == <<SetStateCall, ClearCall>>

\* an accepted import: clearAllImages() is called, then setColumns / setRows
ImportCalls == <<ClearCall, SetStateCall>>

\* one finished reader.onload of handleImportFile
ImportRecord(file, accepted, alert) ==
  [n |-> lastImport.n + 1, file |-> file, accepted |-> accepted, alert |-> alert,
   calls |-> IF accepted THEN ImportCalls ELSE <<>>]

\* the Blob Store calls among the calls of a handler
StoreCalls(calls) == SelectSeq(calls, LAMBDA c : c.op \in {"put", "delete", "clear"})

\* an import that clears the Blob Store before it validates the file
ImportRejectedAfterClear(file, alert) ==
  /\ lastImport' = ImportRecord(file, FALSE, alert)
  /\ issued' = <<ClearCall>>
  /\ clears' = clears + 1
  /\ UNCHANGED <<columns, rows, sheetName, dirty, nextId>>

\* an import that returns after an alert: nothing is set, nothing is called
ImportRejected(file, alert) ==
  /\ lastImport' = ImportRecord(file, FALSE, alert)
  /\ issued' = <<>>
  /\ UNCHANGED <<columns, rows, sheetName, clears, dirty, nextId>>

\* an import that installs newCols / newRows, and the sheet name when setName
ImportAccepted(file, newCols, newRows, setName, name, ids) ==
  /\ lastImport' = ImportRecord(file, TRUE, "")
  /\ issued' = StoreCalls(ImportCalls)
  /\ clears' = clears + Len(StoreCalls(ImportCalls))
  /\ columns' = newCols
  /\ rows' = newRows
  /\ sheetName' = IF setName THEN name ELSE sheetName
  /\ nextId' = nextId + ids
  /\ dirty' = TRUE

\* handleImportFile, reader.onload of a .json file
ImportJson(file) ==
  /\ UserMay
  /\ file.kind = "json"
  /\ ops' = ops + 1
  /\ LET jsonContent == JSONParse(file.text)
     IN  IF "error" \in DOMAIN jsonContent
           THEN ImportRejected(file, "Failed to import JSON file")
           ELSE IF {"columns", "rows"} \subseteq DOMAIN jsonContent
             THEN ImportAccepted(file, jsonContent.columns, jsonContent.rows,
                                 "sheetName" \in DOMAIN jsonContent /\
                                   Truthy(jsonContent.sheetName),
                                 IF "sheetName" \in DOMAIN jsonContent
                                   THEN jsonContent.sheetName ELSE "", 0)
             ELSE ImportRejected(file, "Invalid JSON format")
  /\ UNCHANGED <<escaped, logged, budget, cleared, tabs, tabLog, db, meta, blob, loadPc, loadTmp, saves, dels, lastSave,
                 lastLoad, lastColumnDelete, faults>>

\* the columns of a tabular import: one per header, ids base, base + 1, ...
TabularColumns(headers, base) ==
  [i \in DOMAIN headers |->
     [id |-> base + i - 1,
      label |-> IF Truthy(headers[i]) THEN headers[i] ELSE ColLabel(i),
      width |-> DEFAULT_COL_WIDTH]]

\* the rows of a tabular import: per data row an id, then one id per column
TabularRows(dataRows, n, base) ==
  [r \in DOMAIN dataRows |->
     LET rowBase == base + (r - 1) * (n + 1)
     IN  [id |-> rowBase, height |-> DEFAULT_ROW_HEIGHT,
          cells |-> [k \in {base - n + i - 1 : i \in 1..n} |->
                       LET i == k - (base - n) + 1
                       IN  [id |-> rowBase + i, type |-> TEXT,
                            content |-> IF i \in DOMAIN dataRows[r]
                                          THEN dataRows[r][i] ELSE ""]]]]

\* handleImportFile, reader.onload of a spreadsheet or CSV file; file.data is
\* the result of sheet_to_json with header: 1
ImportTabular(file) ==
  /\ UserMay
  /\ file.kind = "tabular"
  /\ ops' = ops + 1
  /\ LET jsonData == file.data
     IN  IF Len(jsonData) = 0
           THEN ImportRejected(file, "The file appears to be empty.")
           ELSE LET headers == jsonData[1]
                    dataRows == Tail(jsonData)
                    n == Len(headers)
                IN  ImportAccepted(file, TabularColumns(headers, nextId),
                                   TabularRows(dataRows, n, nextId + n),
                                   TRUE, file.name, n + Len(dataRows) * (n + 1))
  /\ UNCHANGED <<escaped, logged, budget, cleared, tabs, tabLog, db, meta, blob, loadPc, loadTmp, saves, dels, lastSave,
                 lastLoad, lastColumnDelete, faults>>

\* the page is reloaded: component state is re-created, calls that have not
\* settled are lost, both stores keep what they hold
Reload ==
  /\ ~dirty
  /\ loadPc = "done"
  /\ columns' = <<>>
  /\ rows' = <<>>
  /\ sheetName' = DEFAULT_SHEET_NAME
  /\ loadPc' = "start"
  /\ loadTmp' = [found |-> FALSE]
  /\ saves' = <<>>
  /\ dels' = EmptyBag
  /\ clears' = 0
  /\ issued' = <<>>
  /\ lastColumnDelete' = NoColumnDelete
  /\ db' = NoDb
  /\ UNCHANGED <<escaped, logged, cleared, lastImport, budget, tabs, tabLog, meta, blob, dirty, lastSave,
                 lastLoad, nextId, ops, faults>>

\* ------------------------------------------------------------ specification
Next ==
  \/ Mount
  \/ \E ok \in Outcomes : LoadFinish(ok)
  \/ SaveEffect
  \/ \E i \in DOMAIN saves : \E id \in saves[i].pend :
       \E ok \in BOOLEAN : \E metaOk \in BOOLEAN : PutDone(i, id, ok, metaOk)
  \/ \E id \in BagToSet(dels) : \E ok \in Outcomes : DelDone(id, ok)
  \/ \E r \in EditRows : \E c \in EditCols : \E t \in Texts : TextChange(r, c, t)
  \/ \E r \in EditRows : \E c \in EditCols : \E img \in Payloads : Paste(r, c, img)
  \/ \E r \in EditRows : \E c \in EditCols : \E res \in Uploads : ImageUpload(r, c, res)
  \/ \E r \in EditRows : \E c \in EditCols : ClearCell(r, c)
  \/ AddColumn
  \/ AddRow
  \/ \E c \in EditCols : \E confirmed \in BOOLEAN : DeleteColumn(c, confirmed)
  \/ \E c \in EditCols : \E d \in Deltas : ColResize(c, d)
  \/ \E r \in EditRows : \E d \in Deltas : RowResize(r, d)
  \/ \E n \in Names : SetSheetName(n)
  \/ Reload

Spec == Init /\ [][Next]_vars

\* the same with the import dialog
NextImport ==
  \/ Next
  \/ \E file \in ImportFiles : ImportJson(file)
  \/ \E file \in ImportFiles : ImportTabular(file)
  \/ \E ok \in Outcomes : ClearDone(ok)

SpecImport == Init /\ [][NextImport]_vars

\* the editor with imports, in a run that may inject several store failures
SpecFailing == InitFailing /\ [][NextImport]_vars

\* the editor in a run in which a save may start while another is in flight
SpecOverlap == InitOverlap /\ [][Next]_vars

\* ------------------------------------------------- presence monitor: actions
\* a tab opens the editor: the multi-tab effect creates its channel and tabId
OpenChannel(t) ==
  /\ tabs[t].pc = "closed"
  /\ tabLog.opens < MaxTabOpens
  /\ tabs' = [tabs EXCEPT ![t] = FreshTab(tabLog.opens + 1)]
  /\ tabLog' = [opens |-> tabLog.opens + 1, seen |-> tabLog.seen \cup {t}]
  /\ UNCHANGED <<gridVars, db>>

\* channel.postMessage({ type: 'TAB_OPEN', tabId })
Announce(t) ==
  /\ tabs[t].pc = "created"
  /\ tabs' = [PostFrom(tabs, t, TabOpenMsg(tabs[t].tabId)) EXCEPT ![t].pc = "posted"]
  /\ UNCHANGED <<gridVars, tabLog, db>>

\* channel.onmessage = handler
Listen(t) ==
  /\ tabs[t].pc = "posted"
  /\ tabs' = [tabs EXCEPT ![t].pc = "active"]
  /\ UNCHANGED <<gridVars, tabLog, db>>

\* the message event at the head of tab t's queue is dispatched to its handler
Deliver(t) ==
  /\ tabs[t].pc = "active"
  /\ tabs[t].inbox # <<>>
  /\ LET msg == Head(tabs[t].inbox)
         own == tabs[t].tabId
         handled == [tabs EXCEPT ![t].inbox = Tail(@),
                                 ![t].warned = @ \/ Warns(own, msg),
                                 ![t].cause = IF Warns(own, msg) THEN msg ELSE @]
     IN  tabs' = IF Replies(own, msg)
                   THEN PostFrom(handled, t, TabExistsMsg(own))
                   ELSE handled
  /\ UNCHANGED <<gridVars, tabLog, db>>

\* the dismiss button of the banner: setShowMultiTabWarning(false)
Dismiss(t) ==
  /\ tabs[t].pc # "closed"
  /\ tabs[t].warned
  /\ tabs' = [tabs EXCEPT ![t].warned = FALSE, ![t].cause = NoMsg]
  /\ UNCHANGED <<gridVars, tabLog, db>>

\* the tab is closed: the effect's cleanup closes the channel, queued message
\* events are discarded with it
CloseTab(t) ==
  /\ tabs[t].pc # "closed"
  /\ tabs' = [tabs EXCEPT ![t] = ClosedTab]
  /\ UNCHANGED <<gridVars, tabLog, db>>

NextPresence ==
  \/ \E t \in Tabs : OpenChannel(t)
  \/ \E t \in Tabs : Announce(t)
  \/ \E t \in Tabs : Listen(t)
  \/ \E t \in Tabs : Deliver(t)
  \/ \E t \in Tabs : Dismiss(t)
  \/ \E t \in Tabs : CloseTab(t)

\* the editor opened over any saved slot
SpecSaved == InitSaved /\ [][Next]_vars

SpecPresence == Init /\ [][NextPresence]_vars

\* ---------------------------------------------- imageStorage handle: actions
\* a service function (saveImage, getAllImages, deleteImage, clearAllImages)
\* is called and runs `await initDB()`: the executor resolves with dbInstance
\* when it is set, else calls indexedDB.open and waits for the request
CallInitDB(o) ==
  /\ db.pc[o] = "idle"
  /\ db.calls < MaxCalls
  /\ IF db.instance # 0
       THEN db' = [db EXCEPT !.calls = @ + 1, !.pc[o] = "tx", !.got[o] = db.instance]
       ELSE db' = [db EXCEPT !.calls = @ + 1, !.opens = @ + 1, !.pc[o] = "opening",
                             !.req[o] = db.opens + 1]
  /\ UNCHANGED <<gridVars, tabs, tabLog>>

\* request.onsuccess of the call's open request: dbInstance = request.result
OpenSuccess(o) ==
  /\ db.pc[o] = "opening"
  /\ db' = [db EXCEPT !.instance = db.req[o], !.opened = @ \cup {db.req[o]},
                      !.pc[o] = "tx", !.got[o] = db.req[o], !.req[o] = 0]
  /\ UNCHANGED <<gridVars, tabs, tabLog>>

\* request.onerror of the call's open request: the call rejects
OpenError(o) ==
  /\ db.pc[o] = "opening"
  /\ db.errors < MaxOpenErrors
  /\ db' = [db EXCEPT !.errors = @ + 1, !.pc[o] = "idle", !.req[o] = 0]
  /\ UNCHANGED <<gridVars, tabs, tabLog>>

\* the store request of the call settles on the handle it got; the call returns
Transact(o) ==
  /\ db.pc[o] = "tx"
  /\ db' = [db EXCEPT !.pc[o] = "idle", !.got[o] = 0]
  /\ UNCHANGED <<gridVars, tabs, tabLog>>

NextHandle ==
  \/ \E o \in Callers : CallInitDB(o)
  \/ \E o \in Callers : OpenSuccess(o)
  \/ \E o \in Callers : OpenError(o)
  \/ \E o \in Callers : Transact(o)

SpecHandle == Init /\ [][NextHandle]_vars

\* each step of the effect and each queued message event is eventually run
SpecPresenceLive ==
  /\ Init /\ [][NextPresence]_vars
  /\ \A t \in Tabs : WF_vars(Announce(t)) /\ WF_vars(Listen(t)) /\ WF_vars(Deliver(t))

\* ------------------------------------------------------------------- claims
\* the step on which loadData installs the document it read
LoadInstalls == loadPc = "getAll" /\ loadPc' = "done"

\* C1: in every completed save, each cell of type IMAGE holding an inline data
\* URL had put(cell.id, content) issued for it, and where that put succeeded
\* the document handed to the Metadata Store holds '[INDEXED_DB]' under the
\* same id and type; puts are issued for no other cell, and every cell that is
\* not an inline image is written unchanged. A metadata write that succeeded
\* left exactly that document in the slot.
SaveOffload ==
  lastSave.valid =>
    /\ DOMAIN lastSave.doc.rows = DOMAIN lastSave.rows
    /\ \A i \in DOMAIN lastSave.rows :
         /\ DOMAIN lastSave.doc.rows[i].cells = DOMAIN lastSave.rows[i].cells
         /\ \A k \in DOMAIN lastSave.rows[i].cells :
              LET cell == lastSave.rows[i].cells[k]
                  stored == lastSave.doc.rows[i].cells[k]
                  inline == cell.type = IMAGE /\ cell.content \in Payloads
                  put == [id |-> cell.id, content |-> cell.content]
              IN  /\ inline <=> put \in lastSave.puts
                  /\ inline /\ cell.id \in lastSave.okIds =>
                       stored = [id |-> cell.id, type |-> IMAGE, content |-> INDEXED]
                  /\ ~inline => stored = cell
    /\ {p.id : p \in lastSave.puts} \subseteq {c.id : c \in CellsOf(lastSave.rows)}
    /\ lastSave.metaOk => meta = JSONStringify(lastSave.doc)

\* a save has completed in which a put succeeded, a text cell passed through,
\* and the metadata write succeeded
SaveOffloadWitness ==
  /\ lastSave.valid /\ lastSave.metaOk
  /\ lastSave.okIds # {}
  /\ \E c \in CellsOf(lastSave.rows) : c.type = TEXT /\ c.content = "hi"

\* C2: in every completed save, a cell whose put failed is written to the
\* document with its original inline content, a cell whose put succeeded is
\* written as '[INDEXED_DB]', and the metadata write is attempted: no save stays
\* in flight once all its puts have settled.
BlobWriteFailureKeepsInline ==
  /\ \A j \in DOMAIN saves : saves[j].pend # {}
  /\ lastSave.valid =>
       \A i \in DOMAIN lastSave.rows : \A k \in DOMAIN lastSave.rows[i].cells :
         LET cell == lastSave.rows[i].cells[k]
             stored == lastSave.doc.rows[i].cells[k]
         IN  [id |-> cell.id, content |-> cell.content] \in lastSave.puts =>
               IF cell.id \in lastSave.okIds
                 THEN stored = [cell EXCEPT !.content = INDEXED]
                 ELSE stored = cell /\ stored.content # INDEXED

\* a save has completed and written its document with one put failed and
\* another succeeded
BlobWriteFailureWitness ==
  /\ lastSave.valid /\ lastSave.metaOk
  /\ \E p \in lastSave.puts : \E q \in lastSave.puts :
       p.id \notin lastSave.okIds /\ q.id \in lastSave.okIds

\* C3: when loadData installs the document written by a save whose metadata
\* write succeeded, every cell whose put failed in that save is installed as
\* the IMAGE cell it was in memory when the save ran, with the same content,
\* whatever the Blob Store holds for its id.
OversizeFallbackSurvivesReload ==
  [][(/\ LoadInstalls
      /\ lastSave.valid /\ lastSave.metaOk
      /\ meta = JSONStringify(lastSave.doc)
      /\ loadTmp.rows = lastSave.doc.rows)
     => \A i \in DOMAIN lastSave.rows : \A k \in DOMAIN lastSave.rows[i].cells :
          LET cell == lastSave.rows[i].cells[k]
          IN  (/\ [id |-> cell.id, content |-> cell.content] \in lastSave.puts
               /\ cell.id \notin lastSave.okIds)
              => rows'[i].cells[k] = cell]_vars

\* C4: when loadData installs a document after getAll succeeded, a cell whose
\* content in the document is '[INDEXED_DB]' and whose id has no Blob Store
\* entry is installed as TEXT with empty content, and no installed cell has
\* '[INDEXED_DB]' as content.
LostBlobRecovery ==
  [][(LoadInstalls /\ lastLoad'.getAllOk)
     => /\ \A i \in DOMAIN loadTmp.rows : \A k \in DOMAIN loadTmp.rows[i].cells :
             LET cell == loadTmp.rows[i].cells[k]
             IN  (cell.content = INDEXED /\ cell.id \notin DOMAIN blob)
                 => rows'[i].cells[k] = [id |-> cell.id, type |-> TEXT, content |-> ""]
        /\ \A c \in CellsOf(rows') : c.content # INDEXED]_vars

\* C5: when a save of a grid with an inline IMAGE cell completed with every
\* put and the metadata write successful, the stores were left alone since,
\* and loadData then installs that document after a successful getAll, the
\* installed columns, rows and sheetName equal those the save ran on.
RoundTrip ==
  [][(/\ LoadInstalls /\ lastLoad'.getAllOk
      /\ lastSave.valid /\ AllOk(lastSave) /\ lastSave.quiet
      /\ lastSave.puts # {}
      /\ meta = JSONStringify(lastSave.doc)
      /\ loadTmp.cols = lastSave.doc.columns
      /\ loadTmp.rows = lastSave.doc.rows)
     => /\ columns' = lastSave.cols
        /\ rows' = lastSave.rows
        /\ sheetName' = lastSave.name]_vars

\* C6: the deleteColumn that ran last issued exactly one delete call per IMAGE
\* cell of the column, and once no call and no save is in flight, no render
\* awaits its save and no store call has failed, the Blob Store holds no entry
\* for any of those cells.
OrphanCleanupOnColumnDelete ==
  lastColumnDelete.valid =>
    /\ Len(lastColumnDelete.calls) = Cardinality(lastColumnDelete.images)
    /\ {lastColumnDelete.calls[i].id : i \in DOMAIN lastColumnDelete.calls} =
         lastColumnDelete.images
    /\ \A i \in DOMAIN lastColumnDelete.calls : lastColumnDelete.calls[i].op = "delete"
    /\ (Idle /\ ~dirty /\ faults = 0) =>
         \A id \in lastColumnDelete.images : id \notin DOMAIN blob

\* C7: in every Grid State reached from the fresh default grid, the keys of
\* each row's cells are exactly the ids of the existing columns.
RowColumnShape ==
  (loadPc = "done" /\ lastLoad.valid /\ lastLoad.src = "fresh") =>
    \A i \in DOMAIN rows :
      DOMAIN rows[i].cells = {columns[j].id : j \in DOMAIN columns}

\* C8: when loadData installs a document after getAll succeeded, every cell
\* whose id is a key of the Blob Store is installed with type IMAGE and the
\* stored blob as content, whatever the document held for it, and every cell
\* whose id is no key and whose content is no sentinel is installed unchanged.
BlobAuthoritativeOnLoad ==
  [][(LoadInstalls /\ lastLoad'.getAllOk)
     => /\ columns' = loadTmp.cols
        /\ DOMAIN rows' = DOMAIN loadTmp.rows
        /\ \A i \in DOMAIN loadTmp.rows :
             /\ DOMAIN rows'[i].cells = DOMAIN loadTmp.rows[i].cells
             /\ \A k \in DOMAIN loadTmp.rows[i].cells :
                  LET cell == loadTmp.rows[i].cells[k]
                      loaded == rows'[i].cells[k]
                  IN  /\ cell.id \in DOMAIN blob =>
                           loaded = [id |-> cell.id, type |-> IMAGE,
                                     content |-> blob[cell.id]]
                      /\ (cell.id \notin DOMAIN blob /\
                          cell.content \notin {INDEXED, OVERSIZED}) =>
                           loaded = cell]_vars

\* a load has just installed a grid in which a cell took its content from the
\* Blob Store and another cell, without a blob, kept its text
BlobAuthoritativeWitness ==
  /\ loadPc = "done" /\ dirty
  /\ lastLoad.valid /\ lastLoad.src = "doc" /\ lastLoad.getAllOk
  /\ \E c \in CellsOf(rows) :
       /\ c.id \in lastLoad.hits /\ c.id \in DOMAIN blob
       /\ c.type = IMAGE /\ c.content = blob[c.id]
  /\ \E c \in CellsOf(rows) :
       c.id \notin lastLoad.hits /\ c.type = TEXT /\ c.content = "hi"

\* C9: when loadData installs a document, whether getAll succeeded or failed,
\* no installed cell has '[IMAGE_TOO_LARGE]' as content, and a cell that
\* carried it and has no blob is installed as TEXT with empty content.
OversizedNeverReachesGrid ==
  [][LoadInstalls
     => /\ \A c \in CellsOf(rows') : c.content # OVERSIZED
        /\ \A i \in DOMAIN loadTmp.rows : \A k \in DOMAIN loadTmp.rows[i].cells :
             LET cell == loadTmp.rows[i].cells[k]
             IN  (cell.content = OVERSIZED /\ cell.id \notin DOMAIN blob)
                 => rows'[i].cells[k] = [id |-> cell.id, type |-> TEXT,
                                         content |-> ""]]_vars

\* C10 as stated: a save that repeats the completed save before it (same Grid
\* State, no failure in either, nothing else touching the stores) leaves the
\* Blob Store mapping and the Metadata Store document identical to what the
\* first save left.
SaveIdempotence ==
  (lastSave.valid /\ lastSave.again /\ NoFault(lastSave) /\ lastSave.quiet) =>
    /\ blob = lastSave.before.blob
    /\ meta = lastSave.before.meta

\* C10 amended: such a save leaves the Blob Store mapping identical and the
\* Metadata Store document identical in columns, rows and sheetName; savedAt
\* is the time of the save that wrote it.
SaveIdempotenceModuloSavedAt ==
  (lastSave.valid /\ lastSave.again /\ NoFault(lastSave) /\ lastSave.quiet) =>
    /\ blob = lastSave.before.blob
    /\ meta.kind = "json" /\ lastSave.before.meta.kind = "json"
    /\ JSONParse(meta).columns = JSONParse(lastSave.before.meta).columns
    /\ JSONParse(meta).rows = JSONParse(lastSave.before.meta).rows
    /\ JSONParse(meta).sheetName = JSONParse(lastSave.before.meta).sheetName

\* a save with an image put has repeated the save before it, at a later time
SaveIdempotenceWitness ==
  /\ lastSave.valid /\ lastSave.again /\ NoFault(lastSave) /\ lastSave.quiet
  /\ lastSave.puts # {}
  /\ JSONParse(meta).savedAt # JSONParse(lastSave.before.meta).savedAt

\* C11: whenever tab b has created its channel while tab a is open, then
\* unless one of them is closed, a's warning is eventually raised by b's
\* TAB_OPEN and b's warning is eventually raised by a message carrying a's tabId;
\* when a was already listening, b's warning is raised by a's TAB_EXISTS reply.
MultiTabDetection ==
  \A a \in Tabs : \A b \in Tabs \ {a} :
    /\ (tabs[a].pc # "closed" /\ tabs[b].pc = "created")
         ~> \/ tabs[a].pc = "closed" \/ tabs[b].pc = "closed"
            \/ /\ tabs[a].warned
               /\ tabs[a].cause = TabOpenMsg(tabs[b].tabId)
    /\ (tabs[a].pc # "closed" /\ tabs[b].pc = "created")
         ~> \/ tabs[a].pc = "closed" \/ tabs[b].pc = "closed"
            \/ /\ tabs[b].warned
               /\ tabs[b].cause.tabId = tabs[a].tabId
    /\ (tabs[a].pc = "active" /\ tabs[b].pc = "created")
         ~> \/ tabs[a].pc = "closed" \/ tabs[b].pc = "closed"
            \/ /\ tabs[b].warned
               /\ tabs[b].cause = TabExistsMsg(tabs[a].tabId)

\* tab 2 was opened while tab 1 was listening, and both banners are up: tab 1's
\* raised by the TAB_OPEN of tab 2, tab 2's by the TAB_EXISTS reply of tab 1
MultiTabDetectionWitness ==
  /\ tabs[1].pc = "active" /\ tabs[2].pc = "active"
  /\ tabs[1].tabId < tabs[2].tabId
  /\ tabs[1].warned /\ tabs[1].cause = TabOpenMsg(tabs[2].tabId)
  /\ tabs[2].warned /\ tabs[2].cause = TabExistsMsg(tabs[1].tabId)

\* C12: a raised warning was raised by a TAB_OPEN or TAB_EXISTS message whose
\* tabId differs from the tab's own, and while at most one tab has ever opened
\* a channel no warning is raised.
NoFalseWarning ==
  /\ \A t \in Tabs :
       tabs[t].warned =>
         /\ tabs[t].cause.type \in {"TAB_OPEN", "TAB_EXISTS"}
         /\ tabs[t].cause.tabId # tabs[t].tabId
  /\ Cardinality(tabLog.seen) <= 1 => \A t \in Tabs : ~tabs[t].warned

\* a single tab has opened the editor, closed it, opened it again and listens,
\* with no warning
NoFalseWarningWitness ==
  /\ tabLog.seen = {1} /\ tabLog.opens = 2
  /\ tabs[1].pc = "active" /\ ~tabs[1].warned

\* C13: when loadData runs over a slot that is empty, holds text that is not
\* JSON, or holds a JSON object lacking `columns` or `rows`, it finishes in the
\* same step without waiting for getAllImages, issues no Blob Store call, and
\* installs 4 columns and 4 rows in which every row holds exactly one empty
\* TEXT cell per column.
MalformedMetadataGivesFreshGrid ==
  [][(/\ loadPc = "start" /\ loadPc' # "start"
      /\ \/ meta.kind \in {"null", "text"}
         \/ meta.kind = "json" /\ ~({"columns", "rows"} \subseteq DOMAIN meta.value))
     => /\ loadPc' = "done"
        /\ issued' = <<>>
        /\ Len(columns') = 4 /\ Len(rows') = 4
        /\ \A i \in DOMAIN rows' :
             /\ DOMAIN rows'[i].cells = {columns'[j].id : j \in DOMAIN columns'}
             /\ \A k \in DOMAIN rows'[i].cells :
                  rows'[i].cells[k].type = TEXT /\ rows'[i].cells[k].content = ""
        /\ Cardinality({columns'[j].id : j \in DOMAIN columns'}) = 4]_vars

\* a load over a slot that holds a JSON object without `rows` has installed
\* the default grid
MalformedMetadataWitness ==
  /\ meta.kind = "json" /\ "rows" \notin DOMAIN meta.value
  /\ loadPc = "done" /\ dirty
  /\ lastLoad.valid /\ lastLoad.src = "fresh"
  /\ Len(columns) = 4 /\ Len(rows) = 4

\* the step on which a reader.onload of handleImportFile runs
ImportStep == lastImport'.n = lastImport.n + 1

\* C14: an import of a JSON document with `columns` and `rows`, or of a
\* non-empty tabular file, installs the file's columns and rows and has called
\* clear() on the Blob Store before the state updates; no import changes
\* columns or rows without that call.
ImportClearsBlobsFirst ==
  [][ImportStep =>
       LET f == lastImport'.file
           calls == lastImport'.calls
           acceptable ==
             \/ f.kind = "json" /\ f.text.kind = "json"
                  /\ {"columns", "rows"} \subseteq DOMAIN f.text.value
             \/ f.kind = "tabular" /\ f.data # <<>>
           clearedFirst ==
             /\ clears' = clears + 1
             /\ \E i \in DOMAIN calls : calls[i].op = "clear"
             /\ \A j \in DOMAIN calls :
                  calls[j].op = "setState" =>
                    \E i \in 1..(j - 1) : calls[i].op = "clear"
       IN  /\ acceptable =>
                /\ clearedFirst
                /\ f.kind = "json" =>
                     columns' = f.text.value.columns /\ rows' = f.text.value.rows
                /\ f.kind = "tabular" =>
                     Len(columns') = Len(f.data[1]) /\ Len(rows') = Len(f.data) - 1
           /\ (columns' # columns \/ rows' # rows \/ lastImport'.accepted) =>
                clearedFirst]_vars

\* a tabular file has just been imported over a grid whose image was in the
\* Blob Store, and the clear() call is in flight
ImportClearsWitness ==
  /\ lastImport.n > 0 /\ lastImport.accepted /\ lastImport.file.kind = "tabular"
  /\ dirty /\ clears = 1
  /\ blob # EmptyBlob
  /\ Len(columns) = 2 /\ Len(rows) = 1

\* C15: an import of a JSON file that does not parse or lacks `columns` or
\* `rows`, or of an empty tabular file, shows an alert and leaves columns, rows,
\* sheetName, the Blob Store and the Metadata Store unchanged, with no clear()
\* or other store call issued.
RejectedImportChangesNothing ==
  [][ImportStep =>
       LET f == lastImport'.file
           rejectable ==
             \/ f.kind = "json" /\ f.text.kind # "json"
             \/ f.kind = "json" /\ f.text.kind = "json"
                  /\ ~({"columns", "rows"} \subseteq DOMAIN f.text.value)
             \/ f.kind = "tabular" /\ f.data = <<>>
       IN  rejectable =>
             /\ ~lastImport'.accepted
             /\ lastImport'.alert # ""
             /\ lastImport'.calls = <<>> /\ issued' = <<>>
             /\ UNCHANGED <<columns, rows, sheetName, blob, meta, clears, dels,
                            saves, dirty>>]_vars

\* a JSON file without `rows` has been rejected while the Blob Store held an image
RejectedImportWitness ==
  /\ lastImport.n > 0 /\ ~lastImport.accepted
  /\ lastImport.alert = "Invalid JSON format"
  /\ blob # EmptyBlob /\ clears = 0 /\ ~dirty

\* a step in which a save ends with its setItem having thrown
QuotaStep ==
  /\ lastSave'.valid /\ ~lastSave'.metaOk
  /\ ~lastSave.valid \/ lastSave.metaOk

\* C16: when the setItem of a save throws, the slot keeps what it held, which
\* is always the document of the last save whose setItem returned (or what the
\* visit found); columns, rows and sheetName are unchanged; the failure is
\* logged by the catch and leaves saveData normally; afterwards the handlers
\* still accept an edit and the save effect still runs.
QuotaExceededKeepsLastSave ==
  /\ [][/\ QuotaStep =>
              /\ meta' = meta
              /\ UNCHANGED <<columns, rows, sheetName>>
              /\ "setItem" \in logged'
              /\ "setItem" \notin escaped'
        /\ meta' # meta =>
              /\ lastSave'.valid /\ lastSave'.metaOk
              /\ meta' = JSONStringify(lastSave'.doc)]_vars
  /\ []("setItem" \in logged =>
          /\ (loadPc = "done" /\ ~dirty /\ ops < MaxOps)
               => ENABLED (AddRow \/ \E r \in EditRows : \E c \in EditCols :
                                       \E img \in Payloads : Paste(r, c, img))
          /\ (dirty /\ saves = <<>>) => ENABLED SaveEffect)

\* after a save whose setItem threw and was logged, a later save of an edited
\* grid wrote the slot
QuotaExceededWitness ==
  /\ "setItem" \in logged /\ escaped = {}
  /\ lastSave.valid /\ lastSave.metaOk
  /\ meta = JSONStringify(lastSave.doc)
  /\ lastSave.doc.savedAt > 0

\* a step of a handler that leaves the columns, the sheet name and the shape
\* of every row alone: a cell edit (or a resize, which replaces no cell)
CellEditStep ==
  /\ ops' = ops + 1
  /\ columns' = columns /\ sheetName' = sheetName
  /\ DOMAIN rows' = DOMAIN rows
  /\ \A r \in DOMAIN rows : DOMAIN rows'[r].cells = DOMAIN rows[r].cells

\* the cells such a step replaced whose image is left without a cell: the old
\* cell was an IMAGE and the new one is not an IMAGE or has empty content
Orphaned ==
  {rows[r].cells[k].id : <<r, k>> \in
     {x \in UNION {{<<r, k>> : k \in DOMAIN rows[r].cells} : r \in DOMAIN rows} :
        LET old == rows[x[1]].cells[x[2]]
            new == rows'[x[1]].cells[x[2]]
        IN  /\ new # old
            /\ old.type = IMAGE
            /\ new.type # IMAGE \/ new.content = ""}}

\* C17: a cell edit issues deleteImage(oldCell.id) exactly for the cell it
\* replaced when that cell was an IMAGE and the new cell is not an IMAGE or is
\* empty; replacing an IMAGE by a non-empty IMAGE, or replacing a cell that was
\* not an IMAGE, issues no delete.
OrphanReclamationOnCellEdit ==
  [][CellEditStep =>
       /\ Len(issued') = Cardinality(Orphaned)
       /\ {issued'[i] : i \in DOMAIN issued'} = {DeleteCall(id) : id \in Orphaned}
       /\ dels' = dels (+) SetToBag(Orphaned)]_vars

\* clearCell has just replaced an IMAGE cell by an empty TEXT cell and the
\* delete of its id is in flight
OrphanReclamationWitness ==
  \E r \in DOMAIN rows : \E k \in DOMAIN rows[r].cells :
    /\ issued = <<DeleteCall(rows[r].cells[k].id)>>
    /\ rows[r].cells[k].type = TEXT /\ rows[r].cells[k].content = ""
    /\ BagIn(rows[r].cells[k].id, dels)

\* a step of a save: the save effect runs, or a saveImage of a saveData in
\* flight settles
SaveStep ==
  /\ loadPc' = loadPc
  /\ \/ dirty /\ ~dirty'
     \/ Len(saves') < Len(saves)
     \/ \E i \in DOMAIN saves \cap DOMAIN saves' : saves'[i].pend # saves[i].pend

\* C18: every step of a save, whatever its puts and its setItem did, leaves
\* columns, rows and sheetName as they were; when a saveData ends, each cell
\* whose put succeeded is written with the INDEXED sentinel in the document
\* while the cell it was taken from still holds its inline payload in memory.
SaveLeavesGridState ==
  [][SaveStep =>
       /\ UNCHANGED <<columns, rows, sheetName>>
       /\ Len(saves') < Len(saves) =>
            \A i \in DOMAIN lastSave'.rows : \A k \in DOMAIN lastSave'.rows[i].cells :
              LET cell == lastSave'.rows[i].cells[k]
              IN  cell.id \in lastSave'.okIds =>
                    /\ lastSave'.doc.rows[i].cells[k].content = INDEXED
                    /\ \A c \in CellsOf(rows) : c.id = cell.id /\ c = cell =>
                         \E c2 \in CellsOf(rows') :
                           /\ c2.id = cell.id /\ c2.type = IMAGE
                           /\ StartsWithData(c2.content)]_vars

\* a saveData has ended whose put and setItem succeeded: the slot holds the
\* cell as INDEXED and the cell in memory holds the payload
SaveLeavesGridStateWitness ==
  /\ lastSave.valid /\ lastSave.metaOk /\ lastSave.okIds # {}
  /\ rows = lastSave.rows /\ meta = JSONStringify(lastSave.doc)
  /\ \E i \in DOMAIN rows : \E k \in DOMAIN rows[i].cells :
       /\ rows[i].cells[k].id \in lastSave.okIds
       /\ StartsWithData(rows[i].cells[k].content)
       /\ JSONParse(meta).rows[i].cells[k].content = INDEXED

\* the places that hold rows: the component state, the saved document, the
\* document loadData has parsed, the snapshots of the saveData calls in flight
RowPlaces ==
  {rows} \cup (IF ParseSaved(meta).found THEN {ParseSaved(meta).rows} ELSE {})
         \cup (IF loadTmp.found THEN {loadTmp.rows} ELSE {})
         \cup {saves[i].rows : i \in DOMAIN saves}

\* the rows a and b hold the same id in every cell they both have
SameCellIds(a, b) ==
  \A k \in DOMAIN a.cells \cap DOMAIN b.cells : a.cells[k].id = b.cells[k].id

\* C19: the cell of a row under a column keeps its id: no step changes it
\* (text change, paste, upload, clear, resize, save, load), and the saved
\* document, the load in progress and the saves in flight hold the same id for
\* it as the component state, so a load installs it with the id it had.
CellIdImmutable ==
  /\ [][\A i \in DOMAIN rows : \A j \in DOMAIN rows' :
          rows[i].id = rows'[j].id => SameCellIds(rows[i], rows'[j])]_vars
  /\ [](\A A \in RowPlaces : \A B \in RowPlaces :
          \A i \in DOMAIN A : \A j \in DOMAIN B :
            A[i].id = B[j].id => SameCellIds(A[i], B[j]))

\* a cell that was edited into an image, saved, and installed again by a load
\* that merged its blob, carries the id the document and the Blob Store hold
CellIdImmutableWitness ==
  /\ loadPc = "done" /\ lastLoad.valid /\ lastLoad.src = "doc"
  /\ \E i \in DOMAIN rows : \E k \in DOMAIN rows[i].cells :
       /\ rows[i].cells[k].id \in lastLoad.hits
       /\ rows[i].cells[k].type = IMAGE
       /\ ParseSaved(meta).found
       /\ \E j \in DOMAIN ParseSaved(meta).rows :
            /\ ParseSaved(meta).rows[j].id = rows[i].id
            /\ ParseSaved(meta).rows[j].cells[k].id = rows[i].cells[k].id

\* C20: whichever of put, getAll, delete, clear and setItem fail, no failure
\* leaves its handler; loadData still installs the grid, a saveData in flight
\* still has a call to wait for and ends by reaching setItem, and whenever the
\* component is mounted and rendered after a failure, an edit is accepted.
StoreFailuresContained ==
  /\ [](escaped = {})
  /\ [](\A i \in DOMAIN saves : saves[i].pend # {})
  /\ [](faults > 0 =>
          /\ logged # {}
          /\ (loadPc = "done" /\ ~dirty /\ ops < MaxOps)
               => ENABLED (AddRow \/ \E r \in EditRows : \E c \in EditCols :
                                       \E img \in Payloads : Paste(r, c, img)))
  /\ [][/\ (loadPc = "getAll" /\ loadPc' = "done") =>
              columns' = loadTmp.cols /\ sheetName' = loadTmp.name /\ dirty'
        /\ (Len(saves') < Len(saves) /\ loadPc' = loadPc) =>
              /\ lastSave'.valid
              /\ \E i \in DOMAIN saves :
                   /\ lastSave'.cols = saves[i].cols
                   /\ lastSave'.rows = saves[i].rows]_vars

\* two different store operations have failed and were logged, and the
\* mounted editor is idle with room for a further edit
StoreFailuresWitness ==
  /\ Cardinality(logged) >= 2 /\ escaped = {}
  /\ loadPc = "done" /\ ~dirty /\ ops > 0 /\ ops < MaxOps
  /\ columns # <<>> /\ rows # <<>>

\* the setItem of a save runs in the step in which its last pending saveImage
\* settles (or at once when it has none), and the save ends with every one of
\* its puts settled: each is in okIds or has failed, none is pending
WriteAfterPuts ==
  [][/\ (meta' # meta \/ Len(saves') < Len(saves)) /\ loadPc' = loadPc =>
          \/ /\ saves' = saves /\ NewSave.puts = {} /\ dirty /\ ~dirty'
          \/ \E i \in DOMAIN saves :
               /\ Cardinality(saves[i].pend) = 1
               /\ lastSave'.valid
               /\ lastSave'.puts = saves[i].puts /\ lastSave'.rows = saves[i].rows
               /\ saves[i].okIds \subseteq lastSave'.okIds
               /\ lastSave'.okIds \subseteq {p.id : p \in saves[i].puts}
               /\ lastSave'.okIds \ saves[i].okIds \subseteq saves[i].pend
     /\ meta' # meta => meta' = JSONStringify(lastSave'.doc)]_vars

\* C21 as stated: setItem runs only after every put of the save has settled,
\* and the document of a save holds INDEXED for a cell only if the put of that
\* save for the cell's id had succeeded.
MetadataWriteIsCommitPoint ==
  /\ WriteAfterPuts
  /\ [](lastSave.valid =>
          \A i \in DOMAIN lastSave.doc.rows : \A k \in DOMAIN lastSave.doc.rows[i].cells :
            lastSave.doc.rows[i].cells[k].content = INDEXED =>
              lastSave.doc.rows[i].cells[k].id \in lastSave.okIds)

\* C21 amended: setItem runs only after every put of the save has settled, and
\* the document holds INDEXED for a cell whose content in memory was not
\* already INDEXED only if the put of that save for the cell's id had
\* succeeded; a cell already holding INDEXED is written as it is, with no put.
CommitPointForInlineCells ==
  /\ WriteAfterPuts
  /\ [](lastSave.valid =>
          \A i \in DOMAIN lastSave.doc.rows : \A k \in DOMAIN lastSave.doc.rows[i].cells :
            /\ (/\ lastSave.doc.rows[i].cells[k].content = INDEXED
                /\ lastSave.rows[i].cells[k].content # INDEXED) =>
                 lastSave.doc.rows[i].cells[k].id \in lastSave.okIds
            /\ lastSave.rows[i].cells[k].content = INDEXED =>
                 /\ lastSave.doc.rows[i].cells[k] = lastSave.rows[i].cells[k]
                 /\ lastSave.rows[i].cells[k].id \notin {p.id : p \in lastSave.puts})

\* a save with two puts has ended, one put failed and one succeeded: the
\* document holds INDEXED for the one and the inline payload for the other
CommitPointWitness ==
  /\ lastSave.valid /\ lastSave.metaOk /\ meta = JSONStringify(lastSave.doc)
  /\ Cardinality(lastSave.puts) = 2 /\ Cardinality(lastSave.okIds) = 1
  /\ \E i \in DOMAIN lastSave.doc.rows : \E k \in DOMAIN lastSave.doc.rows[i].cells :
       /\ lastSave.doc.rows[i].cells[k].content = INDEXED
       /\ lastSave.doc.rows[i].cells[k].id \in lastSave.okIds

\* the content the saveData s handed to saveImage for the cell id
PutContent(s, id) == (CHOOSE p \in s.puts : p.id = id).content

\* the step leaves the Blob Store with c under x and every other entry as it was
Overwrites(x, c) ==
  /\ DOMAIN blob' = DOMAIN blob \cup {x}
  /\ blob'[x] = c
  /\ \A y \in DOMAIN blob \ {x} : blob'[y] = blob[y]

\* C22: whatever the order in which overlapping saves complete, a setItem
\* that returns leaves its own document in the slot, so the slot holds the
\* document of the save whose write ran last; a put that succeeds overwrites
\* the entry of its id with its own content, and nothing but a settling put,
\* delete or clear changes the Blob Store, so each id holds the content of the
\* put that completed last.
LastCompletionWins ==
  /\ [](lastSave.valid /\ lastSave.metaOk => meta = JSONStringify(lastSave.doc))
  /\ [][/\ \A i \in DOMAIN saves : \A id \in saves[i].pend :
             (\/ /\ Len(saves') = Len(saves) /\ id \notin saves'[i].pend
                 /\ id \in saves'[i].okIds
              \/ /\ Len(saves') < Len(saves) /\ loadPc' = loadPc
                 /\ saves[i].pend = {id}
                 /\ lastSave'.rows = saves[i].rows /\ lastSave'.before = saves[i].before
                 /\ id \in lastSave'.okIds)
               => \E j \in DOMAIN saves : \E x \in saves[j].pend :
                    Overwrites(x, PutContent(saves[j], x))
        /\ blob' # blob =>
             \/ \E j \in DOMAIN saves : \E x \in saves[j].pend :
                  Overwrites(x, PutContent(saves[j], x))
             \/ \E x \in DOMAIN blob : BagIn(x, dels) /\ blob' = BlobDelete(blob, x)
             \/ clears > 0 /\ blob' = EmptyBlob]_vars

\* two saves of different rows overlapped and the older one completed last:
\* nothing is in flight, the slot holds the older document and the Blob Store
\* the older image, while the grid shows the newer image
LastCompletionWinsWitness ==
  /\ Idle /\ ~dirty /\ loadPc = "done"
  /\ lastSave.valid /\ lastSave.metaOk /\ meta = JSONStringify(lastSave.doc)
  /\ lastSave.rows # rows
  /\ \E i \in DOMAIN rows : \E k \in DOMAIN rows[i].cells :
       LET cell == rows[i].cells[k]
       IN  /\ cell.type = IMAGE /\ cell.content = "data:B"
           /\ cell.id \in DOMAIN blob /\ blob[cell.id] = "data:A"
           /\ lastSave.rows[i].cells[k].content = "data:A"

\* C23 as stated: the database is opened at most once, not before the first
\* call, whatever the interleaving of the calls, and every call works on the
\* one handle.
LazyInitOnce ==
  /\ Cardinality(db.opened) <= 1
  /\ db.calls = 0 => db.opens = 0
  /\ \A o \in Callers : db.pc[o] = "tx" => db.got[o] = db.instance

\* C24: while columns and rows are both empty no saveData is in flight and no
\* step writes the slot or the Blob Store; the save effect that runs in that
\* state issues no put and starts no saveData; hence no document in the slot
\* has both columns and rows empty.
NoSaveBeforeInit ==
  /\ [](columns = <<>> /\ rows = <<>> => saves = <<>>)
  /\ [](meta.kind = "json" =>
          JSONParse(meta).columns # <<>> \/ JSONParse(meta).rows # <<>>)
  /\ [][(columns = <<>> /\ rows = <<>>) =>
          /\ meta' = meta
          /\ \A id \in DOMAIN blob' : id \in DOMAIN blob /\ blob'[id] = blob[id]
          /\ (dirty /\ ~dirty') =>
               /\ issued' = <<>> /\ saves' = saves /\ lastSave' = lastSave
               /\ blob' = blob]_vars

\* a document is saved, the page was reloaded, and while loadData waits for
\* getAllImages the sheet name was edited: the save effect has run on the
\* empty grid and the slot still holds the document
NoSaveBeforeInitWitness ==
  /\ columns = <<>> /\ rows = <<>> /\ loadPc = "getAll"
  /\ sheetName # DEFAULT_SHEET_NAME /\ ~dirty
  /\ meta.kind = "json" /\ JSONParse(meta).columns # <<>>
  /\ JSONParse(meta).sheetName # sheetName

\* in this step tab t runs its postMessage of the effect body
Announces(t) == tabs[t].pc = "created" /\ tabs'[t].pc = "posted"

\* in this step tab t's handler runs on the message at the head of its queue
Handles(t) ==
  /\ tabs[t].pc = "active" /\ tabs'[t].pc = "active"
  /\ tabs[t].inbox # <<>>
  /\ Len(tabs'[t].inbox) < Len(tabs[t].inbox)

\* what the protocol lets tab t post in this step: its one TAB_OPEN when the
\* effect runs, one TAB_EXISTS when it handles a foreign TAB_OPEN, else nothing
MayPost(t) ==
  IF Announces(t) THEN <<TabOpenMsg(tabs[t].tabId)>>
  ELSE IF /\ Handles(t)
          /\ Head(tabs[t].inbox).type = "TAB_OPEN"
          /\ Head(tabs[t].inbox).tabId # tabs[t].tabId
    THEN <<TabExistsMsg(tabs[t].tabId)>>
    ELSE <<>>

\* C25: in every step the queue of each open tab grows by exactly what the
\* other tabs may post: one TAB_OPEN per run of the effect, one TAB_EXISTS per
\* foreign TAB_OPEN handled, nothing for a TAB_EXISTS, nothing when a tab
\* closes; and eventually no queue holds a message any more.
PresenceQuiesces ==
  /\ [][\A u \in Tabs :
          (tabs[u].pc # "closed" /\ tabs'[u].pc # "closed") =>
            LET base == IF Handles(u) THEN Tail(tabs[u].inbox) ELSE tabs[u].inbox
                posting == {t \in Tabs \ {u} : MayPost(t) # <<>>}
            IN  /\ Cardinality(posting) <= 1
                /\ tabs'[u].inbox =
                     base \o (IF posting = {} THEN <<>>
                              ELSE MayPost(CHOOSE t \in posting : TRUE))]_vars
  /\ <>[](\A t \in Tabs : tabs[t].inbox = <<>>)

\* three channels were created in all, the two tabs now open have exchanged
\* TAB_OPEN and TAB_EXISTS, and every queue is empty
PresenceQuiescesWitness ==
  /\ tabLog.opens = 3
  /\ \A t \in Tabs : tabs[t].pc = "active" /\ tabs[t].inbox = <<>> /\ tabs[t].warned
  /\ \E t \in Tabs : tabs[t].cause.type = "TAB_EXISTS"
  /\ \E t \in Tabs : tabs[t].cause.type = "TAB_OPEN"

\* what a reload would install for the cell id: the cells of that id in the
\* saved document merged with the Blob Store
ReloadedCells(id) ==
  IF ParseSaved(meta).found
    THEN {c \in CellsOf(MergeRows(ParseSaved(meta).rows, blob)) : c.id = id}
    ELSE {}

\* C26 as stated: once a cell whose image was in the Blob Store has been
\* cleared to empty TEXT and no Blob Store call or save is pending (none of
\* them having failed), the Blob Store has no entry for the cell's id and a
\* reload installs the cell as empty TEXT.
ClearedImageStaysGone ==
  (Idle /\ ~dirty /\ loadPc = "done" /\ faults = 0) =>
    \A c \in CellsOf(rows) :
      (c.id \in cleared /\ c.type = TEXT /\ c.content = "") =>
        /\ c.id \notin DOMAIN blob
        /\ ParseSaved(meta).found
        /\ \A d \in ReloadedCells(c.id) : d.type = TEXT /\ d.content = ""

====
